---------------------------- MODULE Spec2Model ----------------------------
(***************************************************************************)
(* Model of mytimesync (src/src/main.rs): one synchronisation attempt of a *)
(* serial-attached clock.  The program resolves the serial port, opens it, *)
(* selects the next whole-second boundary that is more than 100            *)
(* microseconds away, writes a 6-byte frame announcing it, sleeps until    *)
(* the boundary and writes the commit byte 'c'.                            *)
(*                                                                         *)
(* A DateTime<Local> is modelled by its instant on the UTC time line, as   *)
(* whole seconds plus microseconds within the second; its calendar fields  *)
(* are derived through the zone's UTC offset, as chrono does.  A Duration  *)
(* is a signed count of microseconds (chrono keeps nanoseconds; the only   *)
(* constant compared against is 100 microseconds).  Year, month and day    *)
(* are collapsed into one day number.  Rust's 0-based array index k is     *)
(* position k+1 of a TLA+ sequence.                                        *)
(***************************************************************************)
EXTENDS Integers, Sequences, FiniteSets, TLC

VARIABLES
    pc,              \* position of main / inner_main
    clock,           \* the system clock: the current instant
    tz,              \* the local time zone of the host
    devices,         \* captions returned by the WMI query, in enumeration order
    serial_port_num, \* result of get_serial
    now,             \* inner_main: now
    next,            \* inner_main: next
    next_sync_time,  \* inner_main: next_sync_time (the target)
    dist,            \* inner_main: dist
    iterations,      \* number of passes through the selection loop
    buf,             \* inner_main: buf
    sleep_duration,  \* inner_main: sleep_duration (signed chrono Duration)
    trace,           \* transport operations and sleeps performed, in order
    logs,            \* messages emitted through the log crate, in order
    outcome,         \* how the run ended
    enc_time,        \* encoder harness: the time of day given to the encoder
    enc_buf          \* encoder harness: the frame it produced

vars == <<pc, clock, tz, devices, serial_port_num, now, next, next_sync_time,
          dist, iterations, buf, sleep_duration, trace, logs, outcome,
          enc_time, enc_buf>>

schedVars == <<pc, clock, tz, devices, serial_port_num, now, next,
               next_sync_time, dist, iterations, buf, sleep_duration, trace,
               logs, outcome>>

----------------------------------------------------------------------------
(* Bounds of the model *)

\* how many microseconds around each critical sub-second offset are sampled
NearWindow == 1
\* longest enumeration returned by the device query
MaxDevices == 2
\* largest oversleep of thread::sleep, in microseconds
MaxJitter == 1

----------------------------------------------------------------------------
(* Units and absent values *)

MicrosPerSecond == 1000 * 1000
SecondsPerHour == 60 * 60
SecondsPerDay == 24 * SecondsPerHour

None == <<>>
Some(v) == <<v>>
IsSome(o) == Len(o) = 1
Unwrap(o) == o[1]

----------------------------------------------------------------------------
(* Bit operations on unsigned integers *)

RECURSIVE BitAnd(_, _)
BitAnd(a, b) ==
    IF a = 0 \/ b = 0 THEN 0
    ELSE (IF a % 2 = 1 /\ b % 2 = 1 THEN 1 ELSE 0) + 2 * BitAnd(a \div 2, b \div 2)

RECURSIVE BitOr(_, _)
BitOr(a, b) ==
    IF a = 0 THEN b
    ELSE IF b = 0 THEN a
    ELSE (IF a % 2 = 1 \/ b % 2 = 1 THEN 1 ELSE 0) + 2 * BitOr(a \div 2, b \div 2)

Shr(a, n) == a \div (2 ^ n)

AsU8(x) == x % 256

----------------------------------------------------------------------------
(* Instants and durations *)

DateTime(s, f) == [secs |-> s, micros |-> f]

\* DateTime + Duration
AddDuration(t, d) ==
    LET total == t.micros + d
    IN  DateTime(t.secs + total \div MicrosPerSecond, total % MicrosPerSecond)

\* DateTime - DateTime
Since(a, b) == (a.secs - b.secs) * MicrosPerSecond + (a.micros - b.micros)


----------------------------------------------------------------------------
(* The local time zone (chrono::Local).  A zone is fixed, or has one       *)
(* transition at the instant `at` (in seconds): a fold puts the wall clock *)
(* back by one hour, a gap puts it forward by one hour.                    *)

TransitionAt == 2 * SecondsPerHour

FixedZone == [kind |-> "fixed", at |-> 0]
FoldZone == [kind |-> "fold", at |-> TransitionAt]
GapZone == [kind |-> "gap", at |-> TransitionAt]
Zones == {FixedZone, FoldZone, GapZone}

\* offset of local time from UTC, in seconds, at the instant utcSec
utc_offset(zone, utcSec) ==
    CASE zone.kind = "fixed" -> 0
      [] zone.kind = "fold" -> IF utcSec < zone.at THEN SecondsPerHour ELSE 0
      [] zone.kind = "gap" -> IF utcSec < zone.at THEN 0 ELSE SecondsPerHour

\* the local wall-clock second count of the instant t
local_seconds(zone, t) == t.secs + utc_offset(zone, t.secs)

\* Datelike / Timelike accessors of a DateTime<Local>
day_of(zone, t) == local_seconds(zone, t) \div SecondsPerDay
hour_of(zone, t) == (local_seconds(zone, t) % SecondsPerDay) \div SecondsPerHour
minute_of(zone, t) == (local_seconds(zone, t) % SecondsPerHour) \div 60
second_of(zone, t) == local_seconds(zone, t) % 60
micros_of(t) == t.micros

\* Local.with_ymd_and_hms: the LocalResult, as the set of instants whose
\* local fields are the given ones (empty: None, one: Single, two: Ambiguous)
with_ymd_and_hms(zone, day, hour, minute, second) ==
    LET localSec == day * SecondsPerDay + hour * SecondsPerHour + minute * 60 + second
    IN  { DateTime(u, 0) :
            u \in { c \in {localSec, localSec - SecondsPerHour} :
                      c + utc_offset(zone, c) = localSec } }

\* LocalResult::unwrap succeeds only on Single
unwrap_ok(localResult) == Cardinality(localResult) = 1
unwrap(localResult) == CHOOSE t \in localResult : TRUE

\* the truncation dropping the seconds as well
time_trunc_second_ToMinute(zone, time) ==
    with_ymd_and_hms(zone, day_of(zone, time), hour_of(zone, time),
                     minute_of(zone, time), 0)

\* time_trunc_second, before the unwrap
time_trunc_second(zone, time) ==
    with_ymd_and_hms(zone, day_of(zone, time), hour_of(zone, time),
                     minute_of(zone, time), second_of(zone, time))

----------------------------------------------------------------------------
(* Frame encoder.  `seconds` is a u32 in the source; hour, minute and      *)
(* second come from Timelike, so it is at most 86399 and never wraps.     *)

Timelike(zone, t) ==
    [hour |-> hour_of(zone, t), minute |-> minute_of(zone, t),
     second |-> second_of(zone, t)]

\* the encoder shifting by 8 for byte 4
construct_data_buf_Shift8(time) ==
    LET seconds == ((time.hour * 60) + time.minute) * 60 + time.second
        result == <<83, 98, 0, 0, 0, 0>>
        r5 == [result EXCEPT ![6] = AsU8(BitOr(BitAnd(seconds, 127), 128))]
        r4 == [r5 EXCEPT ![5] = AsU8(BitOr(BitAnd(Shr(seconds, 8), 127), 128))]
        r3 == [r4 EXCEPT ![4] = AsU8(BitOr(BitAnd(Shr(seconds, 14), 127), 128))]
        r2 == [r3 EXCEPT ![3] = AsU8(BitOr(BitAnd(Shr(seconds, 21), 127), 128))]
    IN  r2

\* the encoder leaving out the minute term
construct_data_buf_NoMinutes(time) ==
    LET seconds == (time.hour * 60) * 60 + time.second
        result == <<83, 98, 0, 0, 0, 0>>
        r5 == [result EXCEPT ![6] = AsU8(BitOr(BitAnd(seconds, 127), 128))]
        r4 == [r5 EXCEPT ![5] = AsU8(BitOr(BitAnd(Shr(seconds, 7), 127), 128))]
        r3 == [r4 EXCEPT ![4] = AsU8(BitOr(BitAnd(Shr(seconds, 14), 127), 128))]
        r2 == [r3 EXCEPT ![3] = AsU8(BitOr(BitAnd(Shr(seconds, 21), 127), 128))]
    IN  r2

\* the encoder repeating the shift of byte 3 for byte 2
construct_data_buf_Shift14Twice(time) ==
    LET seconds == ((time.hour * 60) + time.minute) * 60 + time.second
        result == <<83, 98, 0, 0, 0, 0>>
        r5 == [result EXCEPT ![6] = AsU8(BitOr(BitAnd(seconds, 127), 128))]
        r4 == [r5 EXCEPT ![5] = AsU8(BitOr(BitAnd(Shr(seconds, 7), 127), 128))]
        r3 == [r4 EXCEPT ![4] = AsU8(BitOr(BitAnd(Shr(seconds, 14), 127), 128))]
        r2 == [r3 EXCEPT ![3] = AsU8(BitOr(BitAnd(Shr(seconds, 14), 127), 128))]
    IN  r2

construct_data_buf(time) ==
    LET seconds == ((time.hour * 60) + time.minute) * 60 + time.second
        result == <<83, 98, 0, 0, 0, 0>>
        r5 == [result EXCEPT ![6] = AsU8(BitOr(BitAnd(seconds, 127), 128))]
        r4 == [r5 EXCEPT ![5] = AsU8(BitOr(BitAnd(Shr(seconds, 7), 127), 128))]
        r3 == [r4 EXCEPT ![4] = AsU8(BitOr(BitAnd(Shr(seconds, 14), 127), 128))]
        r2 == [r3 EXCEPT ![3] = AsU8(BitOr(BitAnd(Shr(seconds, 21), 127), 128))]
    IN  r2

CommitByte == <<99>>

----------------------------------------------------------------------------
(* Device resolution *)

\* Caption values a Win32_PnPEntity row can carry; NullCaption stands for a
\* row whose Caption is missing or is not a Variant::String
NullCaption == "<null>"
Captions == {"USB-SERIAL CH340 (COM3)", "USB-SERIAL CH340 (COM4)",
             "Communications Port (COM1)", NullCaption}

\* REGEX_SERIAL_PORT.captures(caption), group 1
regex_captures(caption) ==
    CASE caption = "USB-SERIAL CH340 (COM3)" -> Some("COM3")
      [] caption = "USB-SERIAL CH340 (COM4)" -> Some("COM4")
      [] OTHER -> None

\* the matches collected in reverse enumeration order
RECURSIVE result_ports_Reversed(_)
result_ports_Reversed(results) ==
    IF results = <<>> THEN <<>>
    ELSE LET caption == Head(results)
             rest == result_ports_Reversed(Tail(results))
         IN  IF caption # NullCaption /\ IsSome(regex_captures(caption))
             THEN rest \o <<Unwrap(regex_captures(caption))>>
             ELSE rest

RECURSIVE result_ports(_)
result_ports(results) ==
    IF results = <<>> THEN <<>>
    ELSE LET caption == Head(results)
             rest == result_ports(Tail(results))
         IN  IF caption # NullCaption /\ IsSome(regex_captures(caption))
             THEN <<Unwrap(regex_captures(caption))>> \o rest
             ELSE rest

DeviceLists == UNION { [1..n -> Captions] : n \in 0..MaxDevices }


----------------------------------------------------------------------------
(* Serial transport and logging *)

\* what serial.write(data) can return: Ok(n) with n bytes accepted, or Err
WriteReturns(data) ==
    { [ok |-> TRUE, n |-> k] : k \in 0..Len(data) } \cup { [ok |-> FALSE, n |-> 0] }

WriteEvent(data, ret) ==
    [op |-> "write", data |-> data, ok |-> ret.ok, n |-> ret.n, at |-> clock]
OpenEvent(port, ok) ==
    [op |-> "open", data |-> <<>>, ok |-> ok, n |-> 0, at |-> clock]
SleepEvent(duration, woke) ==
    [op |-> "sleep", data |-> <<>>, ok |-> TRUE, n |-> duration, at |-> woke]

Log(level, text) == [level |-> level, text |-> text]

\* main dropping the error without logging it
ReturnErr_Silent(e, logged) ==
    /\ outcome' = e
    /\ logs' = logged
    /\ pc' = "exited"

\* `?` in inner_main followed by main's `if let Err(e)`: the error is logged
\* once by main and the process ends
ReturnErr(e, logged) ==
    /\ outcome' = e
    /\ logs' = logged \o <<Log("error", "main error")>>
    /\ pc' = "exited"

----------------------------------------------------------------------------
(* Initial states *)

MinLead == 100

HalfPastNoon == 12 * SecondsPerHour + 30 * 60

StartSeconds(zone) ==
    CASE zone.kind = "fixed" ->
           {0, HalfPastNoon - 2, HalfPastNoon - 1, SecondsPerDay - 2, SecondsPerDay - 1}
      [] zone.kind = "fold" ->
           {zone.at - SecondsPerHour - 2, zone.at - SecondsPerHour - 1, zone.at - 1,
            zone.at + SecondsPerHour - 2, zone.at + SecondsPerHour - 1}
      [] zone.kind = "gap" -> {zone.at - 2, zone.at - 1}

SubSeconds ==
    (0..NearWindow)
    \cup {MicrosPerSecond \div 2}
    \cup ((MicrosPerSecond - MinLead - NearWindow)..(MicrosPerSecond - MinLead + NearWindow))
    \cup {MicrosPerSecond - MinLead \div 2}
    \cup ((MicrosPerSecond - NearWindow)..(MicrosPerSecond - 1))

EncIdle == [hour |-> 0, minute |-> 0, second |-> 0]

Init ==
    /\ pc = "start"
    /\ tz \in Zones
    /\ \E s \in StartSeconds(tz), f \in SubSeconds : clock = DateTime(s, f)
    /\ devices = <<>>
    /\ serial_port_num = None
    /\ now = None
    /\ next = None
    /\ next_sync_time = None
    /\ dist = None
    /\ iterations = 0
    /\ buf = <<>>
    /\ sleep_duration = None
    /\ trace = <<>>
    /\ logs = <<>>
    /\ outcome = "running"
    /\ enc_time = EncIdle
    /\ enc_buf = <<>>


----------------------------------------------------------------------------
(* main / inner_main, one action per step *)

\* get_serial, lines 18-19: the WMI connection and query
QueryDevices ==
    /\ pc = "start"
    /\ \/ /\ \E results \in DeviceLists : devices' = results
          /\ pc' = "queried"
          /\ UNCHANGED <<outcome, logs>>
       \/ /\ ReturnErr("wmi error", logs)
          /\ UNCHANGED devices
    /\ UNCHANGED <<clock, tz, serial_port_num, now, next, next_sync_time, dist,
                   iterations, buf, sleep_duration, trace, enc_time, enc_buf>>

\* get_serial, lines 20-41, and the info! of line 78
GetSerial ==
    /\ pc = "queried"
    /\ LET ports == result_ports(devices)
       IN  IF ports = <<>>
           THEN /\ ReturnErr("No serial ports found", logs)
                /\ UNCHANGED serial_port_num
           ELSE /\ serial_port_num' = Some(ports[1])
                /\ logs' = logs
                       \o (IF Len(ports) > 1
                           THEN <<Log("warn", "Multiple serial ports found")>>
                           ELSE <<>>)
                       \o <<Log("info", "Serial port number")>>
                /\ pc' = "resolved"
                /\ UNCHANGED outcome
    /\ devices' = <<>>
    /\ UNCHANGED <<clock, tz, now, next, next_sync_time, dist, iterations, buf,
                   sleep_duration, trace, enc_time, enc_buf>>

\* open with its error ignored
OpenSerial_Unchecked ==
    /\ pc = "resolved"
    /\ \E ok \in BOOLEAN :
         trace' = Append(trace, OpenEvent(Unwrap(serial_port_num), ok))
    /\ pc' = "opened"
    /\ UNCHANGED <<clock, tz, devices, serial_port_num, now, next, next_sync_time,
                   dist, iterations, buf, sleep_duration, logs, outcome,
                   enc_time, enc_buf>>

\* line 79: serialport::new(..).open()?
OpenSerial ==
    /\ pc = "resolved"
    /\ \E ok \in BOOLEAN :
         /\ trace' = Append(trace, OpenEvent(Unwrap(serial_port_num), ok))
         /\ IF ok
            THEN pc' = "opened" /\ UNCHANGED <<outcome, logs>>
            ELSE ReturnErr("open error", logs)
    /\ UNCHANGED <<clock, tz, devices, serial_port_num, now, next, next_sync_time,
                   dist, iterations, buf, sleep_duration, enc_time, enc_buf>>

\* lines 80-81: now = Local::now(); next = now
CaptureNow ==
    /\ pc = "opened"
    /\ now' = Some(clock)
    /\ next' = Some(clock)
    /\ pc' = "loop"
    /\ UNCHANGED <<clock, tz, devices, serial_port_num, next_sync_time, dist,
                   iterations, buf, sleep_duration, trace, logs, outcome,
                   enc_time, enc_buf>>

\* the exit test with >= in place of >
LeadOk_AtLeast(d) == d >= MinLead

\* the exit test without the lead time
LeadOk_AnyFuture(d) == d > 0

\* the exit test with the lead time taken in milliseconds
LeadOk_Millis(d) == d > MinLead * 1000

\* line 86: the loop's exit test
LeadOk(d) == d > MinLead

\* lines 82-89: one pass through the selection loop
SelectTarget ==
    /\ pc = "loop"
    /\ LET advanced == AddDuration(Unwrap(next), 1 * MicrosPerSecond)
           truncated == time_trunc_second(tz, advanced)
       IN  /\ next' = Some(advanced)
           /\ iterations' = iterations + 1
           /\ IF ~unwrap_ok(truncated)
              THEN /\ pc' = "panicked"
                   /\ outcome' = "panic"
                   /\ UNCHANGED <<next_sync_time, dist>>
              ELSE LET d == Since(unwrap(truncated), Unwrap(now))
                   IN  IF LeadOk(d)
                       THEN /\ next_sync_time' = Some(unwrap(truncated))
                            /\ dist' = Some(d)
                            /\ pc' = "selected"
                            /\ UNCHANGED outcome
                       ELSE /\ pc' = "loop"
                            /\ UNCHANGED <<next_sync_time, dist, outcome>>
    /\ UNCHANGED <<clock, tz, devices, serial_port_num, now, buf, sleep_duration,
                   trace, logs, enc_time, enc_buf>>

\* the frame write with its error ignored
WriteFrame_Unchecked ==
    /\ pc = "selected"
    /\ buf' = construct_data_buf(Timelike(tz, Unwrap(next_sync_time)))
    /\ \E ret \in WriteReturns(buf') :
         trace' = Append(trace, WriteEvent(buf', ret))
    /\ pc' = "written"
    /\ UNCHANGED <<clock, tz, devices, serial_port_num, now, next, next_sync_time,
                   dist, iterations, sleep_duration, logs, outcome, enc_time, enc_buf>>

\* the frame encoding `now` instead of the target
WriteFrame_EncodesNow ==
    /\ pc = "selected"
    /\ buf' = construct_data_buf(Timelike(tz, Unwrap(now)))
    /\ \E ret \in WriteReturns(buf') :
         /\ trace' = Append(trace, WriteEvent(buf', ret))
         /\ IF ret.ok
            THEN pc' = "written" /\ UNCHANGED <<outcome, logs>>
            ELSE ReturnErr("write error", logs)
    /\ UNCHANGED <<clock, tz, devices, serial_port_num, now, next, next_sync_time,
                   dist, iterations, sleep_duration, enc_time, enc_buf>>

\* lines 91-92: encode the target and write the frame
WriteFrame ==
    /\ pc = "selected"
    /\ buf' = construct_data_buf(Timelike(tz, Unwrap(next_sync_time)))
    /\ \E ret \in WriteReturns(buf') :
         /\ trace' = Append(trace, WriteEvent(buf', ret))
         /\ IF ret.ok
            THEN pc' = "written" /\ UNCHANGED <<outcome, logs>>
            ELSE ReturnErr("write error", logs)
    /\ UNCHANGED <<clock, tz, devices, serial_port_num, now, next, next_sync_time,
                   dist, iterations, sleep_duration, enc_time, enc_buf>>

\* time that can have passed between `now` and the second Local::now()
Elapsed ==
    LET lead == Since(Unwrap(next_sync_time), clock)
    IN  (0..NearWindow) \cup ((lead - NearWindow)..(lead + NearWindow))

\* the deadline test left out
DeadlineMissed_Never(d) == FALSE

\* the deadline test with <= in place of <
DeadlineMissed_AtMost(d) == d <= 0

\* line 95: the deadline test
DeadlineMissed(d) == d < 0

\* lines 94-99: re-sample the clock, test the deadline, convert the duration
CheckDeadline ==
    /\ pc = "written"
    /\ \E d \in Elapsed :
         /\ clock' = AddDuration(clock, d)
         /\ LET remaining == Since(Unwrap(next_sync_time), clock')
            IN  /\ sleep_duration' = Some(remaining)
                /\ IF DeadlineMissed(remaining)
                   THEN ReturnErr("Failed to finish operation.",
                                  logs \o <<Log("error", "Failed to finish operation within")>>)
                   ELSE IF remaining < 0
                   THEN ReturnErr("out of range", logs)
                   ELSE pc' = "sleep" /\ UNCHANGED <<outcome, logs>>
    /\ UNCHANGED <<tz, devices, serial_port_num, now, next, next_sync_time, dist,
                   iterations, buf, trace, enc_time, enc_buf>>

\* the sleep repeated
Sleep_Twice ==
    /\ pc = "sleep"
    /\ \E jitter \in 0..MaxJitter :
         /\ clock' = AddDuration(clock, Unwrap(sleep_duration) + jitter)
         /\ trace' = trace \o <<SleepEvent(Unwrap(sleep_duration), clock'),
                                 SleepEvent(Unwrap(sleep_duration), clock')>>
    /\ pc' = "woken"
    /\ UNCHANGED <<tz, devices, serial_port_num, now, next, next_sync_time, dist,
                   iterations, buf, sleep_duration, logs, outcome, enc_time, enc_buf>>

\* the commit sent without waiting for the boundary
Sleep_Skipped ==
    /\ pc = "sleep"
    /\ pc' = "woken"
    /\ UNCHANGED <<clock, tz, devices, serial_port_num, now, next, next_sync_time,
                   dist, iterations, buf, sleep_duration, trace, logs, outcome,
                   enc_time, enc_buf>>

\* line 100: thread::sleep blocks for at least the requested duration
Sleep ==
    /\ pc = "sleep"
    /\ \E jitter \in 0..MaxJitter :
         /\ clock' = AddDuration(clock, Unwrap(sleep_duration) + jitter)
         /\ trace' = Append(trace, SleepEvent(Unwrap(sleep_duration), clock'))
    /\ pc' = "woken"
    /\ UNCHANGED <<tz, devices, serial_port_num, now, next, next_sync_time, dist,
                   iterations, buf, sleep_duration, logs, outcome, enc_time, enc_buf>>

\* lines 102-106: write the commit byte and report success
WriteCommit ==
    /\ pc = "woken"
    /\ \E ret \in WriteReturns(CommitByte) :
         /\ trace' = Append(trace, WriteEvent(CommitByte, ret))
         /\ IF ret.ok
            THEN /\ logs' = Append(logs, Log("info", "Sync finished to time"))
                 /\ outcome' = "ok"
                 /\ pc' = "exited"
            ELSE ReturnErr("write error", logs)
    /\ UNCHANGED <<clock, tz, devices, serial_port_num, now, next, next_sync_time,
                   dist, iterations, buf, sleep_duration, enc_time, enc_buf>>

Next ==
    \/ QueryDevices
    \/ GetSerial
    \/ OpenSerial
    \/ CaptureNow
    \/ SelectTarget
    \/ WriteFrame
    \/ CheckDeadline
    \/ Sleep
    \/ WriteCommit

Spec == Init /\ [][Next]_vars

\* the program is sequential: a step that can be taken is taken
FairSpec == Spec /\ WF_vars(Next)

----------------------------------------------------------------------------
(* The encoder on its own: every time of day is encoded once *)

TimesOfDay == [hour : 0..23, minute : 0..59, second : 0..59]

EncInit ==
    /\ pc = "encoder"
    /\ tz = FixedZone
    /\ clock = DateTime(0, 0)
    /\ devices = <<>>
    /\ serial_port_num = None
    /\ now = None
    /\ next = None
    /\ next_sync_time = None
    /\ dist = None
    /\ iterations = 0
    /\ buf = <<>>
    /\ sleep_duration = None
    /\ trace = <<>>
    /\ logs = <<>>
    /\ outcome = "running"
    /\ enc_time \in TimesOfDay
    /\ enc_buf = <<>>

Encode ==
    /\ pc = "encoder"
    /\ enc_buf = <<>>
    /\ enc_buf' = construct_data_buf(enc_time)
    /\ UNCHANGED <<schedVars, enc_time>>

EncNext == Encode

EncSpec == EncInit /\ [][EncNext]_vars


----------------------------------------------------------------------------
(* Vocabulary of the properties *)

FrameLen == 6

IsWrite(e) == e.op = "write"
IsFrameWrite(e) == e.op = "write" /\ Len(e.data) = FrameLen
IsCommitWrite(e) == e.op = "write" /\ e.data = <<99>>
IsSleep(e) == e.op = "sleep"
IsOpen(e) == e.op = "open"

Count(P(_)) == Cardinality({ i \in DOMAIN trace : P(trace[i]) })
Ops == [ i \in DOMAIN trace |-> trace[i].op ]

Succeeded == pc = "exited" /\ outcome = "ok"
ErrDeadlineMissed == "Failed to finish operation."

\* the first whole-second boundary strictly after the instant t
BoundaryAfter(t) == DateTime(t.secs + 1, 0)

\* seconds since local midnight of the instant t, by plain arithmetic
SecondsOfDay(t) == (t.secs + utc_offset(tz, t.secs)) % SecondsPerDay

\* the 7-bit group k (0 = lowest) of x, marked with bit 7
Marked(x, k) == 128 + ((x \div (128 ^ k)) % 128)
FrameOf(x) == <<83, 98, Marked(x, 3), Marked(x, 2), Marked(x, 1), Marked(x, 0)>>

----------------------------------------------------------------------------
(* C1: whenever a target has been selected, it is a whole-second boundary  *)
(* more than 100 microseconds after `now`, and no frame is written without *)
(* such a target.                                                          *)
C1_LeadTime ==
    /\ IsSome(next_sync_time) =>
         /\ Unwrap(next_sync_time).micros = 0
         /\ Since(Unwrap(next_sync_time), Unwrap(now)) > 100
    /\ Count(IsWrite) > 0 => IsSome(next_sync_time)

C1_Witness ==
    /\ pc = "written"
    /\ Unwrap(now).micros = MicrosPerSecond - 100
    /\ Since(Unwrap(next_sync_time), Unwrap(now)) = MicrosPerSecond + 100

(* C2: when the re-sampled remaining time is negative, the run ends with   *)
(* the missed-deadline error, has not slept and has not written the commit *)
(* byte.                                                                   *)
C2_DeadlineMissAborts ==
    (IsSome(sleep_duration) /\ Unwrap(sleep_duration) < 0) =>
        /\ pc = "exited"
        /\ outcome = ErrDeadlineMissed
        /\ Count(IsSleep) = 0
        /\ Count(IsCommitWrite) = 0

C2_Witness ==
    /\ IsSome(sleep_duration)
    /\ Unwrap(sleep_duration) = -1
    /\ outcome = ErrDeadlineMissed
    /\ Count(IsFrameWrite) = 1

(* C3: every commit write in the trace is preceded by a frame write that   *)
(* returned without error, and a successful run contains both.             *)
C3_FrameBeforeCommit ==
    /\ \A i \in DOMAIN trace :
         IsCommitWrite(trace[i]) =>
           \E j \in 1..(i - 1) : IsFrameWrite(trace[j]) /\ trace[j].ok
    /\ Succeeded => Count(IsFrameWrite) = 1 /\ Count(IsCommitWrite) = 1

C3_Witness ==
    /\ Succeeded
    /\ \E i, j \in DOMAIN trace :
         j < i /\ IsFrameWrite(trace[j]) /\ IsCommitWrite(trace[i])

(* C4: a commit write or a success report is always preceded by a frame    *)
(* write in which the transport accepted all 6 bytes.                      *)
C4_NoPartialSuccess ==
    /\ \A i \in DOMAIN trace :
         IsCommitWrite(trace[i]) =>
           \E j \in 1..(i - 1) :
             IsFrameWrite(trace[j]) /\ trace[j].ok /\ trace[j].n = FrameLen
    /\ Succeeded =>
         \E j \in DOMAIN trace :
           IsFrameWrite(trace[j]) /\ trace[j].ok /\ trace[j].n = FrameLen

(* C5: when the first boundary after `now` is at most 100 microseconds     *)
(* away, the selected target is the boundary one second after it; from     *)
(* 23:59:59.999950 the target is 00:00:01 of the next day.                 *)
C5_SkipsNearBoundary ==
    IsSome(next_sync_time) =>
      /\ Since(BoundaryAfter(Unwrap(now)), Unwrap(now)) <= 100 =>
           Unwrap(next_sync_time) = AddDuration(BoundaryAfter(Unwrap(now)), MicrosPerSecond)
      /\ ( /\ SecondsOfDay(Unwrap(now)) = SecondsPerDay - 1
           /\ Unwrap(now).micros = 999950 ) =>
           /\ SecondsOfDay(Unwrap(next_sync_time)) = 1
           /\ day_of(tz, Unwrap(next_sync_time)) = day_of(tz, Unwrap(now)) + 1

C5_Witness ==
    /\ IsSome(next_sync_time)
    /\ SecondsOfDay(Unwrap(now)) = SecondsPerDay - 1
    /\ Unwrap(now).micros = 999950
    /\ iterations = 2


(* C6: open, the frame write and the commit write are each attempted at    *)
(* most once; a failed transport operation is the last entry of the trace  *)
(* and ends the run with an error; a missed deadline leaves the frame      *)
(* write as the last entry.                                                *)
C6_FailuresAreTerminal ==
    /\ Count(IsOpen) <= 1
    /\ Count(IsFrameWrite) <= 1
    /\ Count(IsCommitWrite) <= 1
    /\ \A i \in DOMAIN trace :
         ~trace[i].ok =>
           /\ i = Len(trace)
           /\ pc = "exited"
           /\ outcome \in {"open error", "write error"}
    /\ outcome = ErrDeadlineMissed =>
         /\ pc = "exited"
         /\ Ops = <<"open", "write">>

C6_Witness ==
    /\ pc = "exited"
    /\ outcome = "write error"
    /\ Len(trace) = 4
    /\ IsCommitWrite(trace[4])
    /\ ~trace[4].ok

(* C7: a run that reports success has performed open, frame write, sleep   *)
(* and commit write in this order, and nothing else.                       *)
C7_TwoWritesOneSleep ==
    Succeeded =>
      /\ Count(IsWrite) = 2
      /\ Count(IsSleep) = 1
      /\ Ops = <<"open", "write", "sleep", "write">>
      /\ IsFrameWrite(trace[2])
      /\ IsCommitWrite(trace[4])

C7_Witness ==
    /\ Succeeded
    /\ Len(trace) = 4
    /\ IsSleep(trace[3])
    /\ trace[3].n > 0

(* C8: for every time of day, reassembling the low 7 bits of frame bytes   *)
(* 2..5, most significant first, gives the seconds since midnight, and     *)
(* each of these bytes has bit 7 set.                                      *)
C8_RoundTrip ==
    enc_buf # <<>> =>
      LET group(k) == BitAnd(enc_buf[k], 127)
          total == ((enc_time.hour * 60) + enc_time.minute) * 60 + enc_time.second
      IN  /\ ((group(3) * 128 + group(4)) * 128 + group(5)) * 128 + group(6) = total
          /\ \A k \in 3..6 : BitAnd(enc_buf[k], 128) = 128

C8_Witness ==
    /\ enc_buf # <<>>
    /\ enc_time = [hour |-> 23, minute |-> 59, second |-> 59]

(* C9 as stated: 12:30:00 is encoded as 53 62 80 82 DF 98.                 *)
C9_Original ==
    (enc_buf # <<>> /\ enc_time = [hour |-> 12, minute |-> 30, second |-> 0]) =>
      enc_buf = <<83, 98, 128, 130, 223, 152>>

(* C9, amended: 12:30:00 (45000 seconds) is encoded with the payload       *)
(* groups 0, 2, 95, 72, that is as the frame 53 62 80 82 DF C8.            *)
C9_Amended ==
    (enc_buf # <<>> /\ enc_time = [hour |-> 12, minute |-> 30, second |-> 0]) =>
      /\ enc_buf = <<83, 98, 128, 130, 223, 200>>
      /\ [k \in 1..4 |-> enc_buf[k + 2] - 128] = <<0, 2, 95, 72>>

C9_Witness ==
    /\ Len(enc_buf) = FrameLen
    /\ enc_time = [hour |-> 12, minute |-> 30, second |-> 0]

(* C10: the first write carries 0x53 0x62 and the four marked 7-bit groups *)
(* of the target's seconds since local midnight; the second write carries  *)
(* the single byte 0x63; there is no third write.                          *)
C10_WireBytes ==
    LET writes == SelectSeq(trace, IsWrite)
    IN  /\ Len(writes) <= 2
        /\ Len(writes) >= 1 =>
             writes[1].data = FrameOf(SecondsOfDay(Unwrap(next_sync_time)))
        /\ Len(writes) >= 2 => writes[2].data = <<99>>

C10_Witness ==
    LET writes == SelectSeq(trace, IsWrite)
    IN  /\ Len(writes) = 2
        /\ SecondsOfDay(Unwrap(now)) = SecondsPerDay - 1
        /\ SecondsOfDay(Unwrap(next_sync_time)) = 1
        /\ writes[1].data = <<83, 98, 128, 128, 128, 129>>


----------------------------------------------------------------------------
\* the last pass of the selection loop could not build the truncated time
ConversionFailed ==
    /\ iterations > 0
    /\ ~unwrap_ok(time_trunc_second(tz, Unwrap(next)))

(* C11: when the local-time construction fails while a candidate is being  *)
(* truncated, the run ends with an error returned to main and logged by    *)
(* it like every other fatal error, and nothing has been written.          *)
C11_ConversionFailureSurfaced ==
    ConversionFailed =>
      /\ pc = "exited"
      /\ outcome \notin {"running", "ok", "panic"}
      /\ Len(logs) > 0
      /\ logs[Len(logs)] = Log("error", "main error")
      /\ Count(IsWrite) = 0


\* positions of the enumerated captions that match the pattern
Matching == { i \in DOMAIN devices : IsSome(regex_captures(devices[i])) }
ErrNotFound == "No serial ports found"

(* C12: resolving an enumeration fails with the not-found error exactly    *)
(* when no caption matches; otherwise it returns the port of the first     *)
(* matching caption and the run goes on, whatever the number of matches.   *)
(* A run that ended with the not-found error has opened and written        *)
(* nothing.                                                                *)
C12_DeviceResolution ==
    /\ [][pc = "queried" =>
            /\ (Matching = {}) <=> (outcome' = ErrNotFound)
            /\ Matching = {} => pc' = "exited" /\ serial_port_num' = None
            /\ Matching # {} =>
                 /\ pc' = "resolved"
                 /\ outcome' = "running"
                 /\ \E i \in Matching :
                      /\ \A j \in Matching : i <= j
                      /\ serial_port_num' = regex_captures(devices[i])]_vars
    /\ [](outcome = ErrNotFound => trace = <<>>)

C12_Witness ==
    /\ pc = "resolved"
    /\ serial_port_num = Some("COM4")
    /\ Log("warn", "Multiple serial ports found") \in { logs[i] : i \in DOMAIN logs }


(* C13: for every time of day the frame has 6 bytes and begins with        *)
(* 0x53 0x62 0x80; midnight is encoded as 53 62 80 80 80 80.               *)
C13_FrameHead ==
    enc_buf # <<>> =>
      /\ Len(enc_buf) = 6
      /\ SubSeq(enc_buf, 1, 3) = <<83, 98, 128>>
      /\ enc_time = [hour |-> 0, minute |-> 0, second |-> 0] =>
           enc_buf = <<83, 98, 128, 128, 128, 128>>

C13_Witness ==
    /\ enc_time = [hour |-> 0, minute |-> 0, second |-> 0]
    /\ Len(enc_buf) = 6
    /\ enc_buf[6] = 128


----------------------------------------------------------------------------
(* time_trunc_second on its own: line 84 applied once to a time point      *)

TruncInit ==
    /\ pc = "truncate"
    /\ tz \in Zones
    /\ \E s \in StartSeconds(tz), f \in SubSeconds :
         /\ clock = DateTime(s, f)
         /\ next = Some(DateTime(s, f))
    /\ devices = <<>>
    /\ serial_port_num = None
    /\ now = None
    /\ next_sync_time = None
    /\ dist = None
    /\ iterations = 0
    /\ buf = <<>>
    /\ sleep_duration = None
    /\ trace = <<>>
    /\ logs = <<>>
    /\ outcome = "running"
    /\ enc_time = EncIdle
    /\ enc_buf = <<>>

\* line 84: let next_sync_time = time_trunc_second(&next)
Truncate ==
    /\ pc = "truncate"
    /\ LET truncated == time_trunc_second(tz, Unwrap(next))
       IN  IF unwrap_ok(truncated)
           THEN /\ next_sync_time' = Some(unwrap(truncated))
                /\ pc' = "truncated"
                /\ UNCHANGED outcome
           ELSE /\ pc' = "panicked"
                /\ outcome' = "panic"
                /\ UNCHANGED next_sync_time
    /\ UNCHANGED <<clock, tz, devices, serial_port_num, now, next, dist, iterations,
                   buf, sleep_duration, trace, logs, enc_time, enc_buf>>

TruncNext == Truncate

TruncSpec == TruncInit /\ [][TruncNext]_vars

\* the calendar fields of a time point
Fields(t) ==
    <<day_of(tz, t), hour_of(tz, t), minute_of(tz, t), second_of(tz, t)>>

(* C14: whenever the truncation of a time point returns, its result has    *)
(* zero sub-second component and the same day, hour, minute and second as  *)
(* the input (and is therefore the same second of the time line).          *)
C14_TruncationKeepsFields ==
    pc = "truncated" =>
      /\ Unwrap(next_sync_time).micros = 0
      /\ Fields(Unwrap(next_sync_time)) = Fields(Unwrap(next))
      /\ Unwrap(next_sync_time).secs = Unwrap(next).secs

C14_Witness ==
    /\ pc = "truncated"
    /\ Unwrap(next).micros = MicrosPerSecond - 1
    /\ Unwrap(next_sync_time).micros = 0
    /\ second_of(tz, Unwrap(next)) = 59

----------------------------------------------------------------------------
\* the error-level messages logged so far
ErrorLogs == SelectSeq(logs, LAMBDA l : l.level = "error")
EndedWithErr == pc = "exited" /\ outcome # "ok"

(* C15 as stated: a run that ended with a fatal error has produced exactly *)
(* one error-level message.                                                *)
C15_Original ==
    EndedWithErr => Len(ErrorLogs) = 1

(* C15, amended: a run that ended with a fatal error has logged main's     *)
(* message of that error as its last message; it is the only error-level   *)
(* message, except after a missed deadline, where the message "Failed to   *)
(* finish operation within ..." precedes it.                               *)
C15_Amended ==
    EndedWithErr =>
      /\ Len(logs) > 0
      /\ logs[Len(logs)] = Log("error", "main error")
      /\ ErrorLogs =
           IF outcome = ErrDeadlineMissed
           THEN <<Log("error", "Failed to finish operation within"),
                  Log("error", "main error")>>
           ELSE <<Log("error", "main error")>>

C15_Witness ==
    /\ EndedWithErr
    /\ outcome = ErrDeadlineMissed
    /\ Len(ErrorLogs) = 2


----------------------------------------------------------------------------
(* C16: every commit write is issued at a clock time that is not earlier   *)
(* than the target (the clock never goes back and the sleep lasts at least *)
(* the requested duration).                                                *)
C16_CommitNotEarly ==
    \A i \in DOMAIN trace :
      IsCommitWrite(trace[i]) => Since(trace[i].at, Unwrap(next_sync_time)) >= 0

C16_Witness ==
    /\ Len(trace) = 4
    /\ IsCommitWrite(trace[4])
    /\ trace[4].at = Unwrap(next_sync_time)
    /\ IsSleep(trace[3])
    /\ trace[3].n > 1

(* C17: a run whose re-sampled remaining time is zero or more is not       *)
(* aborted as a missed deadline; once it is about to sleep it sleeps for   *)
(* the remaining time and then issues the commit write; a commit write     *)
(* that returned without error comes with the success report; and every    *)
(* run ends.                                                               *)
C17_Progress ==
    /\ []((IsSome(sleep_duration) /\ Unwrap(sleep_duration) >= 0) =>
            (pc # "written" /\ outcome # ErrDeadlineMissed))
    /\ (pc = "sleep") ~>
         (/\ Len(trace) = 4
          /\ IsSleep(trace[3])
          /\ trace[3].n = Unwrap(sleep_duration)
          /\ IsCommitWrite(trace[4]))
    /\ [](\A i \in DOMAIN trace :
            (IsCommitWrite(trace[i]) /\ trace[i].ok) => Succeeded)
    /\ <>(pc \in {"exited", "panicked"} /\ outcome # "running")

C17_Witness ==
    /\ Succeeded
    /\ sleep_duration = Some(0)
    /\ IsSleep(trace[3])
    /\ trace[3].n = 0

(* C18: the selection loop makes at most two passes; with f the sub-second *)
(* part of `now`, the target is the first boundary after `now`, selected   *)
(* in the first pass, when f < 999900, and the boundary after that one,    *)
(* selected in the second pass, otherwise; the target is at most 1 s +     *)
(* 100 microseconds after `now`; a `now` on a boundary gives the boundary  *)
(* one second later.                                                       *)
C18_AtMostTwoPasses ==
    /\ iterations <= 2
    /\ pc = "loop" => iterations < 2
    /\ IsSome(next_sync_time) =>
         LET f == Unwrap(now).micros
             floor == DateTime(Unwrap(now).secs, 0)
             target == Unwrap(next_sync_time)
         IN  /\ f < 999900 => (iterations = 1 /\ Since(target, floor) = 1000000)
             /\ f >= 999900 => (iterations = 2 /\ Since(target, floor) = 2000000)
             /\ target.micros = 0
             /\ Since(target, Unwrap(now)) <= 1000000 + 100
             /\ f = 0 => Since(target, Unwrap(now)) = 1000000

C18_Witness ==
    /\ IsSome(next_sync_time)
    /\ Unwrap(now).micros = 999900
    /\ iterations = 2
    /\ Since(Unwrap(next_sync_time), Unwrap(now)) = 1000100

============================================================================
